---- MODULE Spec2Model ----
(***************************************************************************)
(* CsvMetricReporter (inspector-csv): the scheduled report loop, its       *)
(* start/stop lifecycle and the change-or-timeout policy of hasChanged.    *)
(*                                                                         *)
(* Time is the millisecond clock handed to the reporter.  The scheduler is *)
(* setInterval: every handle it returned fires its callback once per       *)
(* interval, whatever the state of earlier callbacks.  report() is async:  *)
(* it suspends on options.dir() and options.filename() and then runs the   *)
(* rest (writer.init and the forEach over the registries) synchronously.   *)
(* options.dir / options.filename are modelled as resolving (the defaults  *)
(* are `async () => "/tmp"` and `async () => "metrics.csv"`).              *)
(*                                                                         *)
(* Beside it: the common tags and the header row of the CSV reporter       *)
(* (setTags, buildTags, buildHeaders), the formatters of LoggerReporter    *)
(* (createReportingContext, reportCounter, reportGauge), and init() of     *)
(* DefaultSender in its database and its bucket version, whose requests    *)
(* to the server resolve or reject one at a time.                          *)
(***************************************************************************)
EXTENDS Integers, Sequences, FiniteSets, TLC

\* ---------------------------------------------------------------- bounds
MaxClock == 4            \* the clock runs from 0 to MaxClock milliseconds
MaxValue == 1            \* instrument values range over 0..MaxValue
MaxStarts == 2           \* start() is called at most MaxStarts times
MaxInflight == 2         \* executions of report() suspended at one time
MaxSkew == 1             \* clock advance between two registries of one tick
MaxInits == 3            \* DefaultSender.init() is called at most MaxInits times

\* ---------------------------------------------------- reporter configuration
\* options.interval converted to milliseconds (options.unit.convertTo)
Interval == 1
\* constructor argument minReportingTimeout
MinReportingTimeout == 2
\* options.columns; with the default export modes (ALL_IN_ONE_COLUMN)
\* buildHeaders pushes every column type as it is
Columns == <<"date", "name", "value", "tags">>

\* the number NaN among the instrument values
NaN == -2

\* ------------------------------------------------------------ instruments
\* a counter the application increments and decrements, and a gauge whose
\* producer returns a constant
\* (getTags(): the counter is tagged region=us, the gauge has no tags)
Requests == [key |-> "requests", id |-> 1, variant |-> "counter",
             group |-> "http", tags |-> << <<"region", "us">> >>]
Version == [key |-> "version", id |-> 2, variant |-> "gauge",
            group |-> "build", tags |-> << >>]
\* a gauge that has no id (metric.id undefined, falsy like 0)
Uptime == [key |-> "uptime", id |-> 0, variant |-> "gauge",
           group |-> "process", tags |-> << >>]
Keys == {"requests", "version", "uptime"}
Counters == {"requests"}

\* the registries a reporter can have been given (addMetricRegistry):
\* none, one registry with a gauge registered before a counter, or two
\* registries with one instrument each
RegistryConfigs ==
    { << >>,
      << <<Version, Requests>> >>,
      << <<Requests>>, <<Version>> >> }

\* the registries an application adds to a reporter later on
\* (addMetricRegistry)
LaterRegistries == { <<Requests>>, <<Version, Uptime>> }

\* the largest number of registries of a reporter and of metrics of a
\* registry in RegistryConfigs
MaxRegistries == 2
MaxMetrics == 2

\* the Map<string, string> values handed to the constructor and to setTags,
\* as sequences of <<key, value>> in insertion order
TagMaps ==
    { << >>,
      << <<"env", "prod">> >>,
      << <<"region", "eu">>, <<"env", "prod">> >> }

\* ExportMode
ExportModes == {"ALL_IN_ONE_COLUMN", "EACH_IN_OWN_COLUMN"}

\* reportMetricRegistry's order of the typed lists
VariantOrder ==
    <<"monotoneCounter", "counter", "gauge", "histogram", "meter", "timer">>

VARIABLES
    clock,             \* this.clock.time().milliseconds
    value,             \* key -> current getCount()/getValue() of the instrument
    metricRegistries,  \* this.metricRegistries
    metricStates,      \* this.metricStates: metric id -> MetricEntry
    header,            \* this.header
    timer,             \* this.timer: 0 (undefined) or a handle
    timers,            \* handles returned by the scheduler: refed, next fire
    starting,          \* start() calls suspended on `await buildHeaders()`:
                       \* the rows their buildHeaders() will resolve to
    ticks,             \* report() executions in flight
    alive,             \* the node process is running
    thrown,            \* an API call has thrown
    lastTick,          \* history: what the report() that just completed did
    reported,          \* history: id -> value of the latest accepted report
    noopStop,          \* history: stop() was just called on a Stopped reporter
    failing,           \* keys of the instruments whose value getter throws
    tags,              \* this.tags: undefined or a map
    constructorTags,   \* the tags argument the constructor was called with
    tagExportMode,     \* this.options.tagExportMode
    setTagsCalled,     \* history: setTags has been called
    builtTags,         \* history: the buildTags calls of the latest
                       \* buildHeaders(): common tags, own tags, result
    logCall,           \* history: the latest LoggerReporter.report* call
    senderVersion,     \* DefaultSender: "database" (InfluxDB) or "bucket"
    exists,            \* server: the configured database / bucket exists
    ready,             \* DefaultSender.ready
    inits,             \* init() calls in flight: the request each awaits
    initCalls,         \* number of init() calls made
    initResolved,      \* history: the promise of an init() call has resolved
    creates,           \* history: createDatabase / postBuckets requests issued
    lastFailure,       \* history: the promise that has just rejected:
                       \* "init", "send" or "none"
    log,               \* LoggerReporter: this.options.log
    logged,            \* history: the log.info calls of the latest
                       \* handleResults
    handled,           \* history: the handleResults call that has just
                       \* returned
    overall,           \* coordinator: reporting context -> the
                       \* OverallReportContext not yet replayed
    sunk,              \* coordinator: reporting context -> the results
                       \* replayed through the sink pipeline
    mergedIds,         \* coordinator: identities of the messages merged
    replayed,          \* history: identities delivered more than once
    lastReceipt,       \* history: what the coordinator did with the message
                       \* it has just received
    diffCall,          \* history: the latest diff(one, two) call
    heap,              \* LoggerReporter: the metadata objects, by reference:
                       \* this.logMetadata, the logMetadata of the latest
                       \* reporting context, the metadata of its LogLines
    ctxOf,             \* the latest LoggerReportingContext
    logLines           \* the LogLines returned for the latest context

\* the DefaultSender and its server
sender == <<senderVersion, exists, ready, inits, initCalls, initResolved,
            creates, lastFailure>>

\* the LoggerReporter's logger
logger == <<log, logged, handled>>

\* the coordinating process of the interprocess protocol
coordinator == <<overall, sunk, mergedIds, replayed, lastReceipt>>

\* the metadata objects of the LoggerReporter
contexts == <<heap, ctxOf, logLines>>

library == <<logger, coordinator, diffCall, contexts>>

\* the CSV reporter, its instruments and the formatting of log lines
engine == <<clock, value, metricRegistries, metricStates, header, timer,
            timers, starting, ticks, alive, thrown, lastTick, reported,
            noopStop, builtTags, failing, tags, constructorTags,
            tagExportMode, setTagsCalled, logCall>>

\* what the reporter's lifecycle and report loop never write
aside == <<failing, tags, constructorTags, tagExportMode, setTagsCalled,
           logCall, sender, library>>

\* the reporters and their instruments
reporters == <<clock, value, metricRegistries, metricStates, header, timer,
               timers, starting, ticks, alive, thrown, lastTick, reported,
               noopStop, builtTags, failing, tags, constructorTags,
               tagExportMode, setTagsCalled, logCall, library>>

vars == <<reporters, sender>>

\* ------------------------------------------------------------------ helpers
\* Map.prototype.set
MapSet(map, k, v) ==
    [x \in (DOMAIN map) \cup {k} |-> IF x = k THEN v ELSE map[x]]

EmptyMap == [x \in {} |-> 0]

\* registry.getMonotoneCounterList() .. getTimerList()
getMetricList(registry, variant) ==
    SelectSeq(registry, LAMBDA m : m.variant = variant)

\* ------------------------------------------------------------------- tags
\* key in obj
hasKey(obj, k) == \E i \in 1..Len(obj) : obj[i][1] = k

\* obj[k]
getKey(obj, k) == obj[CHOOSE i \in 1..Len(obj) : obj[i][1] = k][2]

\* Object.keys(obj) / Map.keys()
keysOf(obj) == [i \in 1..Len(obj) |-> obj[i][1]]

\* obj[k] = v: an existing key keeps its position
assign(obj, k, v) ==
    IF hasKey(obj, k)
    THEN [i \in 1..Len(obj) |-> IF obj[i][1] = k THEN <<k, v>> ELSE obj[i]]
    ELSE Append(obj, <<k, v>>)

\* map.forEach((tag, key) => obj[key] = tag)
RECURSIVE assignAll(_, _)
assignAll(obj, map) ==
    IF map = << >> THEN obj
    ELSE assignAll(assign(obj, Head(map)[1], Head(map)[2]), Tail(map))

\* buildTags copying the instrument's tags first and the common tags last
buildTagsCommonLast(taggable) ==
    assignAll(assignAll(<< >>, taggable.tags), tags.map)

buildTags(taggable) ==
    assignAll(assignAll(<< >>, tags.map), taggable.tags)

\* Set.prototype.add for every element of a list
RECURSIVE addAll(_, _)
addAll(set, list) ==
    IF list = << >> THEN set
    ELSE addAll(IF \E i \in 1..Len(set) : set[i] = Head(list)
                THEN set ELSE Append(set, Head(list)),
                Tail(list))

\* registry.getMetricList() of every registry, one after the other
RECURSIVE metricLists(_)
metricLists(r) ==
    IF r > Len(metricRegistries) THEN << >>
    ELSE metricRegistries[r] \o metricLists(r + 1)

\* the tag names buildHeaders collects: the common tags' keys, then the keys
\* of buildTags(metric) for every metric
RECURSIVE tagNames(_, _)
tagNames(set, metrics) ==
    IF metrics = << >> THEN set
    ELSE tagNames(addAll(set, keysOf(buildTags(Head(metrics)))), Tail(metrics))

\* `${this.options.tagColumnPrefix}${tag}`
tagColumn(tag) == IF tag = "env" THEN "tag_env" ELSE "tag_region"

\* the headers of the columns from the n-th on
RECURSIVE headersFrom(_)
headersFrom(n) ==
    IF n > Len(Columns) THEN << >>
    ELSE IF Columns[n] = "tags" /\ tagExportMode # "ALL_IN_ONE_COLUMN"
    THEN LET names == tagNames(addAll(<< >>, keysOf(tags.map)), metricLists(1))
         IN [i \in 1..Len(names) |-> tagColumn(names[i])] \o headersFrom(n + 1)
    ELSE <<Columns[n]>> \o headersFrom(n + 1)

\* buildHeaders(): it throws at this.tags.forEach when the tags column is
\* exported in own columns and this.tags is undefined; otherwise it calls
\* buildTags for every metric and resolves to the header row
buildHeaders ==
    LET own == /\ tagExportMode # "ALL_IN_ONE_COLUMN"
               /\ \E n \in 1..Len(Columns) : Columns[n] = "tags"
    IN IF own /\ ~tags.defined
       THEN [ok |-> FALSE, row |-> << >>, built |-> << >>]
       ELSE [ok |-> TRUE,
             row |-> headersFrom(1),
             built |-> IF own
                       THEN [i \in 1..Len(metricLists(1)) |->
                               [common |-> tags.map,
                                own |-> metricLists(1)[i].tags,
                                result |-> buildTags(metricLists(1)[i])]]
                       ELSE << >>]

\* reportCounter .. reportTimer: the row builders are stubs returning []
reportFunction(metric, date) == << >>

\* --------------------------------------------------------------- hasChanged
\* a !== b on numbers: NaN is different from every number, itself included
notStrictEqual(a, b) == a = NaN \/ b = NaN \/ a # b

\* hasChanged with the stamp moved out of `if (changed)`
hasChangedStampsAlways(states, metricId, lastValue, date) ==
    LET has == metricId \in DOMAIN states
        metricEntry == IF has THEN states[metricId]
                       ELSE [lastReport |-> 0, lastValue |-> lastValue]
        changed == IF has
                   THEN \/ notStrictEqual(metricEntry.lastValue, lastValue)
                        \/ metricEntry.lastReport + MinReportingTimeout < date
                   ELSE TRUE
    IN  [changed |-> changed,
         states |-> MapSet(states, metricId,
                           [metricEntry EXCEPT !.lastReport = date])]

hasChanged(states, metricId, lastValue, date) ==
    LET has == metricId \in DOMAIN states
        metricEntry == IF has THEN states[metricId]
                       ELSE [lastReport |-> 0, lastValue |-> lastValue]
        changed == IF has
                   THEN \/ notStrictEqual(metricEntry.lastValue, lastValue)
                        \/ metricEntry.lastReport + MinReportingTimeout < date
                   ELSE TRUE
        entry == IF changed THEN [metricEntry EXCEPT !.lastReport = date]
                 ELSE metricEntry
    IN  [changed |-> changed, states |-> MapSet(states, metricId, entry)]

\* ------------------------------------------------------------ reportMetrics
\* reportMetrics sending every metric through hasChanged, id or not
changedOrExemptWithoutIdTest(states, metricId, lastValue, date) ==
    hasChanged(states, metricId, lastValue, date)

\* `let changed = true; if (metricId) { changed = this.hasChanged(...) }`
changedOrExempt(states, metricId, lastValue, date) ==
    IF metricId # 0
    THEN hasChanged(states, metricId, lastValue, date)
    ELSE [changed |-> TRUE, states |-> states]

\* acc: [states, reported, evals, aborted]; one evaluation record per
\* instrument.  lastModifiedFunction(metric) is the instrument's value getter:
\* when it throws, the exception leaves the forEach callbacks and report()
\* (nothing catches it), so nothing after it is evaluated
RECURSIVE reportMetrics(_, _, _, _)
reportMetrics(acc, metrics, date, r) ==
    IF metrics = << >> \/ acc.aborted THEN acc
    ELSE IF Head(metrics).id # 0 /\ Head(metrics).key \in failing
    THEN [acc EXCEPT !.aborted = TRUE]
    ELSE
      LET metric == Head(metrics)
          metricId == metric.id
          current == value[metric.key]
          had == metricId \in DOMAIN acc.states
          res == changedOrExempt(acc.states, metricId, current, date)
          rows == IF res.changed THEN reportFunction(metric, date) ELSE << >>
          eval == [registry |-> r, key |-> metric.key, id |-> metricId,
                   variant |-> metric.variant,
                   value |-> current, now |-> date, had |-> had,
                   prev |-> IF had THEN acc.states[metricId]
                            ELSE [lastReport |-> 0, lastValue |-> current],
                   changed |-> res.changed,
                   post |-> IF metricId \in DOMAIN res.states
                            THEN res.states[metricId]
                            ELSE [lastReport |-> 0, lastValue |-> current],
                   prevReported |-> IF metricId \in DOMAIN acc.reported
                                    THEN acc.reported[metricId] ELSE -1,
                   written |-> Len(rows)]
          next == [states |-> res.states,
                   reported |-> IF res.changed /\ metricId # 0
                                THEN MapSet(acc.reported, metricId, current)
                                ELSE acc.reported,
                   evals |-> Append(acc.evals, eval),
                   aborted |-> FALSE]
      IN reportMetrics(next, Tail(metrics), date, r)

\* ----------------------------------------------------- reportMetricRegistry
RECURSIVE reportVariants(_, _, _, _, _)
reportVariants(acc, registry, date, r, v) ==
    IF v > Len(VariantOrder) THEN acc
    ELSE reportVariants(
            reportMetrics(acc, getMetricList(registry, VariantOrder[v]), date, r),
            registry, date, r, v + 1)

\* reportMetricRegistry walking the instruments in registration order
reportMetricRegistryAsRegistered(acc, registry, date, r) ==
    reportMetrics(acc, registry, date, r)

reportMetricRegistry(acc, registry, date, r) ==
    reportVariants(acc, registry, date, r, 1)

\* metricRegistries.forEach(reportMetricRegistry); every registry reads the
\* clock for itself: dates[r] is what the clock shows when registry r starts
RECURSIVE reportRegistries(_, _, _)
reportRegistries(acc, dates, r) ==
    IF r > Len(metricRegistries) THEN acc
    ELSE reportRegistries(
            reportMetricRegistry(acc, metricRegistries[r], dates[r], r),
            dates, r + 1)

\* the clock readings of one synchronous pass over the registries
RECURSIVE Dates(_, _)
Dates(n, from) ==
    IF n = 0 THEN { << >> }
    ELSE { <<from>> \o rest :
             rest \in UNION { Dates(n - 1, from + d) : d \in 0..MaxSkew } }

\* a suspended report(): the await it waits on, and (history) whether
\* stop() has been called since it started
TickKinds == [pc : {"dir", "filename"}, sawStop : BOOLEAN]

NoTicks == [k \in TickKinds |-> 0]

Inflight == ticks[[pc |-> "dir", sawStop |-> FALSE]]
            + ticks[[pc |-> "dir", sawStop |-> TRUE]]
            + ticks[[pc |-> "filename", sawStop |-> FALSE]]
            + ticks[[pc |-> "filename", sawStop |-> TRUE]]

NoTick == [ran |-> FALSE, sawStop |-> FALSE,
           header |-> [set |-> FALSE, row |-> << >>], evals |-> << >>,
           aborted |-> FALSE]

\* ------------------------------------------------------------------- Init
\* -------------------------------------------------------- LoggerReporter
\* isNaN(x)
isNaN(x) == x = NaN

\* this.logMetadata as the LoggerReporter constructor sets it
logMetadata ==
    [reportInterval |-> Interval, tags |-> << >>, unit |-> "MILLISECOND"]

\* createReportingContext(registry, date, type): Object.assign onto a new
\* object; group is a key only report* adds
createReportingContext(registry, date, type) ==
    [date |-> date,
     logMetadata |-> [reportInterval |-> logMetadata.reportInterval,
                      tags |-> logMetadata.tags,
                      unit |-> logMetadata.unit,
                      measurement |-> "",
                      measurement_type |-> type,
                      timestamp |-> date,
                      group |-> "undefined"],
     metrics |-> << >>,
     registry |-> registry,
     type |-> type]

\* MetricReporter.buildTags(registry, taggable) of the base class: the
\* reporter's tags overridden by the instrument's
loggerBuildTags(registry, taggable) ==
    assignAll(assignAll(<< >>, logMetadata.tags), taggable.tags)

NoLine == [isNull |-> TRUE, message |-> << >>, metadata |-> << >>]

\* the body of reportCounter / reportGauge behind `if (!isNaN(...))`:
\* ctx.logMetadata is written in place and copied into the line
logLine(metric, ctx, type, current) ==
    LET written == [ctx.logMetadata EXCEPT
                      !.measurement = metric.key,
                      !.group = metric.group,
                      !.tags = loggerBuildTags(ctx.registry, metric)]
    IN [ctx |-> [ctx EXCEPT !.logMetadata = written],
        result |-> [isNull |-> FALSE,
                    message |-> <<ctx.date, type, metric.key, current>>,
                    metadata |-> written]]

\* reportCounter without the isNaN test
reportCounterUnguarded(counter, ctx) ==
    logLine(counter, ctx, "counter", value[counter.key])

\* LoggerReporter.reportCounter(counter, ctx): the ctx it leaves and the
\* LogLine (or null) it returns
reportCounter(counter, ctx) ==
    IF ~isNaN(value[counter.key])
    THEN logLine(counter, ctx, "counter", value[counter.key])
    ELSE [ctx |-> ctx, result |-> NoLine]

\* LoggerReporter.reportGauge(gauge, ctx)
reportGauge(gauge, ctx) ==
    IF ~isNaN(value[gauge.key])
    THEN logLine(gauge, ctx, "gauge", value[gauge.key])
    ELSE [ctx |-> ctx, result |-> NoLine]

NoCall == [called |-> FALSE, key |-> "", value |-> 0, result |-> NoLine]

\* the loggers a LoggerReporter is given: the default of the constructor
\* (log = console) and one of the application
Loggers == {"console", "custom"}

\* getLog()
getLog == log

\* the registries whose typed lists are reported
LoggedRegistries ==
    { << >>, <<Requests>>, <<Version, Uptime>>, <<Uptime, Requests, Version>> }

\* the results handed to handleResults for the metrics of one type: one
\* ReportingResult per metric whose report function returned a line
reportingResults(ctx, type, metrics) ==
    LET lines == [i \in 1..Len(metrics) |->
                    [metric |-> metrics[i].key,
                     result |-> IF type = "counter"
                                THEN reportCounter(metrics[i], ctx).result
                                ELSE reportGauge(metrics[i], ctx).result]]
    IN SelectSeq(lines, LAMBDA line : ~line.result.isNull)

\* log.info(message, metadata) on logger l
info(l, message, metadata) ==
    [logger |-> l, level |-> "info", message |-> message,
     metadata |-> metadata]

NoHandled == [called |-> FALSE, results |-> << >>, returned |-> "none"]

\* the reference of this.logMetadata in the heap
OwnMetadata == 1

\* the most LogLines followed in one reporting context
MaxLines == 3

NoContext == [set |-> FALSE, logMetadata |-> 0, registry |-> 0, date |-> 0,
              type |-> ""]

\* ------------------------------------------------------------------ clock
MaxMillis == 2
MaxNanos == 2

\* nanoseconds of a millisecond
NanosPerMilli == 1000000

\* a null Time argument
Null == [defined |-> FALSE, milliseconds |-> 0, nanoseconds |-> 0]

\* the Time values handed to diff: null or { milliseconds, nanoseconds }
Times ==
    {Null} \cup [defined : {TRUE}, milliseconds : 0..MaxMillis,
                 nanoseconds : 0..MaxNanos]

\* diff counting a millisecond as a thousand nanoseconds
diffOfMicroseconds(one, two) ==
    IF ~one.defined \/ ~two.defined
    THEN [threw |-> FALSE, value |-> 0]
    ELSE LET oneValue == one.nanoseconds + one.milliseconds * 1000
             twoValue == two.nanoseconds + two.milliseconds * 1000
         IN [threw |-> FALSE, value |-> twoValue - oneValue]

\* diff reading the fields of its arguments without testing them
diffUnguarded(one, two) ==
    IF ~one.defined \/ ~two.defined
    THEN [threw |-> TRUE, value |-> 0]
    ELSE LET oneValue == one.nanoseconds + one.milliseconds * NanosPerMilli
             twoValue == two.nanoseconds + two.milliseconds * NanosPerMilli
         IN [threw |-> FALSE, value |-> twoValue - oneValue]

\* diff(one, two): 0 for a null argument, else the nanoseconds of two minus
\* the nanoseconds of one
diff(one, two) ==
    IF ~one.defined \/ ~two.defined
    THEN [threw |-> FALSE, value |-> 0]
    ELSE LET oneValue == one.nanoseconds + one.milliseconds * NanosPerMilli
             twoValue == two.nanoseconds + two.milliseconds * NanosPerMilli
         IN [threw |-> FALSE, value |-> twoValue - oneValue]

NoDiff == [called |-> FALSE, one |-> Null, two |-> Null,
           result |-> [threw |-> FALSE, value |-> 0]]

\* ------------------------------------------------ interprocess aggregation
\* the worker processes and the reporting contexts (ticks) they report for
Workers == {"worker-1", "worker-2"}

MaxContexts == 2

Contexts == 1..MaxContexts

\* InterprocessReportMessage.type of a metrics report, and the type of
\* unrelated inter-process traffic
MessageTypes == {"inspector-metrics:report", "other"}

\* InterprocessReportMessage.metrics: the per-type lists
MetricTypes ==
    {"counters", "gauges", "histograms", "meters", "monotoneCounters",
     "timers"}

NoResults == [t \in MetricTypes |-> << >>]

\* the message worker w builds for context c: the two workers report
\* disjoint metric lists
message(w, c, type) ==
    [ctx |-> c,
     date |-> c,
     tags |-> << >>,
     metrics |-> IF w = "worker-1"
                 THEN [NoResults EXCEPT !.counters = << "requests" >>,
                                        !.gauges = << "version" >>]
                 ELSE [NoResults EXCEPT !.gauges = << "uptime" >>],
     targetReporterType |-> "LoggerReporter",
     type |-> type]

\* the identity of a message: its originating worker and reporting context
identity(w, m) == <<w, m.ctx>>

\* the per-type lists of a message appended to those of a context
merge(context, m) ==
    [t \in MetricTypes |-> context[t] \o m.metrics[t]]

\* the number of entries of list equal to x
occurrences(list, x) ==
    Cardinality({i \in 1..Len(list) : list[i] = x})

\* --------------------------------------------------------- DefaultSender
\* the requests an init() call awaits: getOrgs (bucket version only), then
\* getDatabaseNames / getBuckets, then createDatabase / postBuckets
InitRequests == {"orgs", "lookup", "create"}

NoInits == [q \in InitRequests |-> 0]

\* a new DefaultSender (ready = false) in front of a server on which the
\* configured database / bucket exists or not
SenderConstructed(version, there) ==
    /\ senderVersion = version
    /\ exists = there
    /\ ready = FALSE
    /\ inits = NoInits
    /\ initCalls = 0
    /\ initResolved = FALSE
    /\ creates = 0
    /\ lastFailure = "none"

\* the reporter as its constructor leaves it: the constructor stores options,
\* clock, minReportingTimeout and scheduler, and not its tags argument
Constructed(tagsArgument, exportMode) ==
    /\ clock = 0
    /\ value = [k \in Keys |-> 0]
    /\ metricRegistries \in RegistryConfigs
    /\ metricStates = EmptyMap
    /\ header = [set |-> FALSE, row |-> << >>]
    /\ timer = 0
    /\ timers = << >>
    /\ starting = << >>
    /\ ticks = NoTicks
    /\ alive = TRUE
    /\ thrown = FALSE
    /\ lastTick = NoTick
    /\ reported = EmptyMap
    /\ noopStop = FALSE
    /\ failing = {}
    /\ tags = [defined |-> FALSE, map |-> << >>]
    /\ constructorTags = tagsArgument
    /\ tagExportMode = exportMode
    /\ setTagsCalled = FALSE
    /\ builtTags = << >>
    /\ logCall = NoCall
    /\ log = "console"
    /\ logged = << >>
    /\ handled = NoHandled
    /\ overall = [c \in Contexts |-> NoResults]
    /\ sunk = [c \in Contexts |-> NoResults]
    /\ mergedIds = {}
    /\ replayed = {}
    /\ lastReceipt = "none"
    /\ diffCall = NoDiff
    /\ heap = << logMetadata >>
    /\ ctxOf = NoContext
    /\ logLines = << >>

\* the constructor's defaults: tags = new Map(), tagExportMode =
\* ExportMode.ALL_IN_ONE_COLUMN
Init ==
    /\ Constructed(<< >>, "ALL_IN_ONE_COLUMN")
    /\ SenderConstructed("database", FALSE)

\* any tags argument, any tag export mode
TagsInit ==
    \E tagsArgument \in TagMaps, exportMode \in ExportModes :
        /\ Constructed(tagsArgument, exportMode)
        /\ SenderConstructed("database", FALSE)

\* the reporter is Running when its current handle keeps the loop alive
Running == timer # 0 /\ timers[timer].refed
Stopped == ~Running

\* this.scheduler(() => this.report(), interval)
arm ==
    /\ timers' = Append(timers, [refed |-> TRUE, next |-> clock + Interval])
    /\ timer' = Len(timers) + 1

\* ------------------------------------------------------------------ start
\* start() up to `await this.buildHeaders()`: buildHeaders() runs its loop
\* over the columns in the same step and start() is suspended until it
\* resolves; when it throws, start() rejects and arms nothing.  Without
\* registries there is no await and the timer is armed in the same step
start ==
    /\ alive
    /\ UNCHANGED aside
    /\ Len(timers) + Len(starting) < MaxStarts
    /\ noopStop' = FALSE
    /\ lastTick' = NoTick
    /\ IF Len(metricRegistries) > 0
       THEN IF buildHeaders.ok
            THEN /\ starting' = Append(starting, buildHeaders.row)
                 /\ builtTags' = buildHeaders.built
                 /\ UNCHANGED <<timer, timers, thrown>>
            ELSE /\ thrown' = TRUE
                 /\ UNCHANGED <<timer, timers, starting, builtTags>>
       ELSE /\ arm
            /\ UNCHANGED <<starting, thrown, builtTags>>
    /\ UNCHANGED <<clock, value, metricRegistries, metricStates, header, ticks,
                   alive, reported>>

\* start() after buildHeaders() has resolved
startArm ==
    /\ alive
    /\ UNCHANGED <<aside, builtTags>>
    /\ starting # << >>
    /\ starting' = Tail(starting)
    /\ header' = [set |-> TRUE, row |-> Head(starting)]
    /\ arm
    /\ noopStop' = FALSE
    /\ lastTick' = NoTick
    /\ UNCHANGED <<clock, value, metricRegistries, metricStates, ticks, alive,
                   thrown, reported>>

\* ------------------------------------------------------------------- stop
\* every report() in flight has now seen a stop()
sawStop(t) ==
    [k \in TickKinds |->
        IF k.sawStop THEN t[k] + t[[k EXCEPT !.sawStop = FALSE]] ELSE 0]

\* stop() without the `if (this.timer)` guard: unref of undefined throws
stopUnguarded ==
    /\ alive
    /\ UNCHANGED <<aside, builtTags>>
    /\ noopStop' = Stopped
    /\ lastTick' = NoTick
    /\ IF timer # 0
       THEN /\ timers' = [timers EXCEPT ![timer].refed = FALSE]
            /\ UNCHANGED thrown
       ELSE /\ thrown' = TRUE
            /\ UNCHANGED timers
    /\ ticks' = sawStop(ticks)
    /\ UNCHANGED <<clock, value, metricRegistries, metricStates, header, timer,
                   starting, alive, reported>>

stop ==
    /\ alive
    /\ UNCHANGED <<aside, builtTags>>
    /\ noopStop' = Stopped
    /\ lastTick' = NoTick
    /\ IF timer # 0
       THEN timers' = [timers EXCEPT ![timer].refed = FALSE]
       ELSE UNCHANGED timers
    /\ ticks' = sawStop(ticks)
    /\ UNCHANGED <<clock, value, metricRegistries, metricStates, header, timer,
                   starting, alive, thrown, reported>>

\* ----------------------------------------------------------------- report
\* the scheduler fires the callback of handle t: report() runs up to
\* `await this.options.dir()`
timerFire(t) ==
    /\ alive
    /\ UNCHANGED <<aside, builtTags>>
    /\ t \in 1..Len(timers)
    /\ clock >= timers[t].next
    /\ timers' = [timers EXCEPT ![t].next = @ + Interval]
    /\ IF Len(metricRegistries) > 0
       THEN /\ Inflight < MaxInflight
            /\ ticks' = [ticks EXCEPT ![[pc |-> "dir", sawStop |-> FALSE]] = @ + 1]
       ELSE UNCHANGED ticks
    /\ noopStop' = FALSE
    /\ lastTick' = NoTick
    /\ UNCHANGED <<clock, value, metricRegistries, metricStates, header, timer,
                   starting, alive, thrown, reported>>

\* dir() has resolved: report() goes on to `await this.options.filename()`
reportDirResolved(k) ==
    /\ alive
    /\ UNCHANGED <<aside, builtTags>>
    /\ k.pc = "dir"
    /\ ticks[k] > 0
    /\ ticks' = [ticks EXCEPT ![k] = @ - 1,
                              ![[k EXCEPT !.pc = "filename"]] = @ + 1]
    /\ noopStop' = FALSE
    /\ lastTick' = NoTick
    /\ UNCHANGED <<clock, value, metricRegistries, metricStates, header, timer,
                   timers, starting, alive, thrown, reported>>

\* report() that returns after its awaits when the reporter was stopped
reportFilenameResolvedUnlessStopped(k) ==
    /\ alive
    /\ UNCHANGED <<aside, builtTags>>
    /\ k.pc = "filename"
    /\ ticks[k] > 0
    /\ \E dates \in Dates(Len(metricRegistries), clock) :
         LET acc == IF Running
                    THEN reportRegistries(
                            [states |-> metricStates, reported |-> reported,
                             evals |-> << >>, aborted |-> FALSE], dates, 1)
                    ELSE [states |-> metricStates, reported |-> reported,
                          evals |-> << >>, aborted |-> FALSE]
         IN /\ dates[Len(dates)] <= MaxClock
            /\ clock' = dates[Len(dates)]
            /\ metricStates' = acc.states
            /\ reported' = acc.reported
            /\ lastTick' = [ran |-> TRUE, sawStop |-> k.sawStop,
                            header |-> header, evals |-> acc.evals,
                            aborted |-> acc.aborted]
    /\ ticks' = [ticks EXCEPT ![k] = @ - 1]
    /\ noopStop' = FALSE
    /\ UNCHANGED <<value, metricRegistries, header, timer, timers, starting,
                   alive, thrown>>

\* filename() has resolved: writer.init(dir, file, this.header) and the
\* synchronous forEach over the registries
reportFilenameResolved(k) ==
    /\ alive
    /\ UNCHANGED <<aside, builtTags>>
    /\ k.pc = "filename"
    /\ ticks[k] > 0
    /\ \E dates \in Dates(Len(metricRegistries), clock) :
         LET acc == reportRegistries(
                       [states |-> metricStates, reported |-> reported,
                        evals |-> << >>, aborted |-> FALSE], dates, 1)
         IN /\ dates[Len(dates)] <= MaxClock
            /\ clock' = dates[Len(dates)]
            /\ metricStates' = acc.states
            /\ reported' = acc.reported
            /\ lastTick' = [ran |-> TRUE, sawStop |-> k.sawStop,
                            header |-> header, evals |-> acc.evals,
                            aborted |-> acc.aborted]
    /\ ticks' = [ticks EXCEPT ![k] = @ - 1]
    /\ noopStop' = FALSE
    /\ UNCHANGED <<value, metricRegistries, header, timer, timers, starting,
                   alive, thrown>>

\* ------------------------------------------------------------ environment
\* the application increments or decrements a registered counter
setValue(k, v) ==
    /\ alive
    /\ UNCHANGED <<aside, builtTags>>
    /\ k \in Counters
    /\ \E r \in 1..Len(metricRegistries) :
         \E j \in 1..Len(metricRegistries[r]) : metricRegistries[r][j].key = k
    /\ v # value[k]
    /\ value' = [value EXCEPT ![k] = v]
    /\ noopStop' = FALSE
    /\ lastTick' = NoTick
    /\ UNCHANGED <<clock, metricRegistries, metricStates, header, timer, timers,
                   starting, ticks, alive, thrown, reported>>

\* setTags(map)
setTags(map) ==
    /\ alive
    /\ tags' = [defined |-> TRUE, map |-> map]
    /\ setTagsCalled' = TRUE
    /\ noopStop' = FALSE
    /\ lastTick' = NoTick
    /\ UNCHANGED <<clock, value, metricRegistries, metricStates, header, timer,
                   timers, starting, ticks, alive, thrown, reported, failing,
                   constructorTags, tagExportMode, builtTags, logCall, sender,
                   library>>

\* the application drives a registered counter to NaN (increment(NaN))
setNaN(k) ==
    /\ alive
    /\ k \in Counters
    /\ \E r \in 1..Len(metricRegistries) :
         \E j \in 1..Len(metricRegistries[r]) : metricRegistries[r][j].key = k
    /\ ~isNaN(value[k])
    /\ value' = [value EXCEPT ![k] = NaN]
    /\ noopStop' = FALSE
    /\ lastTick' = NoTick
    /\ UNCHANGED <<clock, metricRegistries, metricStates, header, timer, timers,
                   starting, ticks, alive, thrown, reported, aside, builtTags>>

\* a LoggerReporter holding the same registries formats the j-th metric of
\* registry r: createReportingContext, then reportCounter or reportGauge
loggerReport(r, j) ==
    /\ alive
    /\ r \in 1..Len(metricRegistries)
    /\ j \in 1..Len(metricRegistries[r])
    /\ LET metric == metricRegistries[r][j]
           ctx == createReportingContext(r, clock, metric.variant)
           res == IF metric.variant = "counter"
                  THEN reportCounter(metric, ctx)
                  ELSE reportGauge(metric, ctx)
       IN logCall' = [called |-> TRUE, key |-> metric.key,
                      value |-> value[metric.key], result |-> res.result]
    /\ noopStop' = FALSE
    /\ lastTick' = NoTick
    /\ UNCHANGED <<clock, value, metricRegistries, metricStates, header, timer,
                   timers, starting, ticks, alive, thrown, reported, failing,
                   tags, constructorTags, tagExportMode, setTagsCalled,
                   builtTags, sender, library>>

\* the value getter (getCount / getValue) of instrument k starts throwing
getterFails(k) ==
    /\ alive
    /\ UNCHANGED <<tags, constructorTags, tagExportMode, setTagsCalled,
                   builtTags, logCall, sender, library>>
    /\ k \notin failing
    /\ \E r \in 1..Len(metricRegistries) :
         \E j \in 1..Len(metricRegistries[r]) : metricRegistries[r][j].key = k
    /\ failing' = failing \cup {k}
    /\ noopStop' = FALSE
    /\ lastTick' = NoTick
    /\ UNCHANGED <<clock, value, metricRegistries, metricStates, header, timer,
                   timers, starting, ticks, alive, thrown, reported>>

\* setLog(log)
setLog(l) ==
    /\ alive
    /\ log' = l
    /\ logged' = << >>
    /\ handled' = NoHandled
    /\ UNCHANGED <<clock, value, metricRegistries, metricStates, header, timer,
                   timers, starting, ticks, alive, thrown, lastTick, reported,
                   noopStop, failing, tags, constructorTags, tagExportMode,
                   setTagsCalled, builtTags, logCall, sender, coordinator,
                   diffCall, contexts>>

\* handleResults that logs on the logger the constructor was given
handleResultsOnFirstLogger(type, registry) ==
    /\ alive
    /\ LET ctx == createReportingContext(registry, clock, type)
           results == reportingResults(ctx, type,
                                       getMetricList(registry, type))
       IN /\ logged' = [i \in 1..Len(results) |->
                          info("console", results[i].result.message,
                               results[i].result.metadata)]
          /\ handled' = [called |-> TRUE, results |-> results,
                         returned |-> "resolved"]
    /\ UNCHANGED <<clock, value, metricRegistries, metricStates, header, timer,
                   timers, starting, ticks, alive, thrown, lastTick, reported,
                   noopStop, failing, tags, constructorTags, tagExportMode,
                   setTagsCalled, builtTags, logCall, log, sender,
                   coordinator, diffCall, contexts>>

\* handleResults(registry, date, type, results) for the results of the
\* metrics of one type of a registry: one this.options.log.info call per
\* result in the order of the list, then Promise.resolve()
handleResults(type, registry) ==
    /\ alive
    /\ LET ctx == createReportingContext(registry, clock, type)
           results == reportingResults(ctx, type,
                                       getMetricList(registry, type))
       IN /\ logged' = [i \in 1..Len(results) |->
                          info(log, results[i].result.message,
                               results[i].result.metadata)]
          /\ handled' = [called |-> TRUE, results |-> results,
                         returned |-> "resolved"]
    /\ UNCHANGED <<clock, value, metricRegistries, metricStates, header, timer,
                   timers, starting, ticks, alive, thrown, lastTick, reported,
                   noopStop, failing, tags, constructorTags, tagExportMode,
                   setTagsCalled, builtTags, logCall, log, sender,
                   coordinator, diffCall, contexts>>

\* the coordinator merging every message it receives
receiveUntracked(w, m) ==
    /\ alive
    /\ IF m.type # "inspector-metrics:report"
       THEN /\ lastReceipt' = "ignored"
            /\ UNCHANGED <<overall, mergedIds, replayed>>
       ELSE /\ overall' = [overall EXCEPT ![m.ctx] = merge(@, m)]
            /\ mergedIds' = mergedIds \cup {identity(w, m)}
            /\ replayed' = IF identity(w, m) \in mergedIds
                           THEN replayed \cup {identity(w, m)}
                           ELSE replayed
            /\ lastReceipt' = "merged"
    /\ UNCHANGED <<engine, sender, logger, sunk, diffCall, contexts>>

\* the coordinator receives message m from worker w: a message of another
\* type is ignored, a message whose identity was merged before is dropped,
\* any other is merged into the OverallReportContext of its context
receive(w, m) ==
    /\ alive
    /\ IF m.type # "inspector-metrics:report"
       THEN /\ lastReceipt' = "ignored"
            /\ UNCHANGED <<overall, mergedIds, replayed>>
       ELSE IF identity(w, m) \in mergedIds
       THEN /\ lastReceipt' = "dropped"
            /\ replayed' = replayed \cup {identity(w, m)}
            /\ UNCHANGED <<overall, mergedIds>>
       ELSE /\ overall' = [overall EXCEPT ![m.ctx] = merge(@, m)]
            /\ mergedIds' = mergedIds \cup {identity(w, m)}
            /\ lastReceipt' = "merged"
            /\ UNCHANGED replayed
    /\ UNCHANGED <<engine, sender, logger, sunk, diffCall, contexts>>

\* all expected workers have reported for context c, or the coordinator's
\* timeout has passed: the coordinator replays the sink pipeline on what it
\* has merged for c
flush(c) ==
    /\ alive
    /\ overall[c] # NoResults
    /\ sunk' = [sunk EXCEPT ![c] = merge(@, [metrics |-> overall[c]])]
    /\ overall' = [overall EXCEPT ![c] = NoResults]
    /\ lastReceipt' = "none"
    /\ UNCHANGED <<engine, sender, logger, mergedIds, replayed, diffCall,
                   contexts>>

\* the report loop calls createReportingContext(registry, date, type): the
\* new context's logMetadata is a new object, Object.assign({},
\* this.logMetadata, {...})
createContext(r, type) ==
    /\ alive
    /\ r \in 1..Len(metricRegistries)
    /\ heap' = << heap[OwnMetadata],
                  createReportingContext(r, clock, type).logMetadata >>
    /\ ctxOf' = [set |-> TRUE, logMetadata |-> Len(heap'), registry |-> r,
                   date |-> clock, type |-> type]
    /\ logLines' = << >>
    /\ UNCHANGED <<engine, sender, logger, coordinator, diffCall>>

\* report* returning ctx.logMetadata itself as the line's metadata
reportMetricSharingMetadata(j) ==
    /\ alive
    /\ ctxOf.set
    /\ ctxOf.registry \in 1..Len(metricRegistries)
    /\ j \in 1..Len(metricRegistries[ctxOf.registry])
    /\ metricRegistries[ctxOf.registry][j].variant = ctxOf.type
    /\ Len(logLines) < MaxLines
    /\ LET metric == metricRegistries[ctxOf.registry][j]
           ctx == [createReportingContext(ctxOf.registry, ctxOf.date,
                                          ctxOf.type)
                     EXCEPT !.logMetadata = heap[ctxOf.logMetadata]]
           res == IF metric.variant = "counter"
                  THEN reportCounter(metric, ctx)
                  ELSE reportGauge(metric, ctx)
       IN IF res.result.isNull
          THEN UNCHANGED <<heap, logLines>>
          ELSE /\ heap' = [heap EXCEPT ![ctxOf.logMetadata] =
                                          res.ctx.logMetadata]
               /\ logLines' = Append(logLines,
                                  [metric |-> metric,
                                   message |-> res.result.message,
                                   metadata |-> ctxOf.logMetadata])
    /\ UNCHANGED <<engine, sender, logger, coordinator, diffCall, ctxOf>>

\* the report loop calls reportCounter / reportGauge on the j-th metric of
\* the context's registry: the fields are written into ctx.logMetadata in
\* place, and the line gets a new object, Object.assign({}, ctx.logMetadata)
reportMetric(j) ==
    /\ alive
    /\ ctxOf.set
    /\ ctxOf.registry \in 1..Len(metricRegistries)
    /\ j \in 1..Len(metricRegistries[ctxOf.registry])
    /\ metricRegistries[ctxOf.registry][j].variant = ctxOf.type
    /\ Len(logLines) < MaxLines
    /\ LET metric == metricRegistries[ctxOf.registry][j]
           ctx == [createReportingContext(ctxOf.registry, ctxOf.date,
                                          ctxOf.type)
                     EXCEPT !.logMetadata = heap[ctxOf.logMetadata]]
           res == IF metric.variant = "counter"
                  THEN reportCounter(metric, ctx)
                  ELSE reportGauge(metric, ctx)
       IN IF res.result.isNull
          THEN UNCHANGED <<heap, logLines>>
          ELSE /\ heap' = Append([heap EXCEPT ![ctxOf.logMetadata] =
                                                 res.ctx.logMetadata],
                                 res.result.metadata)
               /\ logLines' = Append(logLines,
                                  [metric |-> metric,
                                   message |-> res.result.message,
                                   metadata |-> Len(heap) + 1])
    /\ UNCHANGED <<engine, sender, logger, coordinator, diffCall, ctxOf>>

\* a caller measures the time from one to two
diffCalled(one, two) ==
    /\ alive
    /\ diffCall' = [called |-> TRUE, one |-> one, two |-> two,
                    result |-> diff(one, two)]
    /\ UNCHANGED <<engine, sender, logger, coordinator, contexts>>

\* the application gives the reporter one more registry
\* (addMetricRegistry)
addMetricRegistry(registry) ==
    /\ alive
    /\ UNCHANGED <<aside, builtTags>>
    /\ Len(metricRegistries) < MaxRegistries
    /\ \A r \in 1..Len(metricRegistries) :
         \A j \in 1..Len(metricRegistries[r]) :
            \A n \in 1..Len(registry) : metricRegistries[r][j] # registry[n]
    /\ metricRegistries' = Append(metricRegistries, registry)
    /\ noopStop' = FALSE
    /\ lastTick' = NoTick
    /\ UNCHANGED <<clock, value, metricStates, header, timer, timers, starting,
                   ticks, alive, thrown, reported>>

\* the application removes the j-th metric of registry r
\* (registry.removeMetric)
removeMetric(r, j) ==
    /\ alive
    /\ UNCHANGED <<aside, builtTags>>
    /\ r \in 1..Len(metricRegistries)
    /\ j \in 1..Len(metricRegistries[r])
    /\ metricRegistries' =
         [metricRegistries EXCEPT
            ![r] = SubSeq(@, 1, j - 1) \o SubSeq(@, j + 1, Len(@))]
    /\ noopStop' = FALSE
    /\ lastTick' = NoTick
    /\ UNCHANGED <<clock, value, metricStates, header, timer, timers, starting,
                   ticks, alive, thrown, reported>>

\* ----------------------------------------------------- DefaultSender.init
\* isReady(): Promise.resolve(this.ready)
isReady == ready

\* init() up to its first await: getDatabaseNames(), or getOrgs() in the
\* bucket version
init ==
    /\ initCalls < MaxInits
    /\ initCalls' = initCalls + 1
    /\ inits' = IF senderVersion = "bucket"
                THEN [inits EXCEPT !["orgs"] = @ + 1]
                ELSE [inits EXCEPT !["lookup"] = @ + 1]
    /\ lastFailure' = "none"
    /\ UNCHANGED <<senderVersion, exists, ready, initResolved, creates,
                   reporters>>

\* getOrgs() has resolved with the organisation: init() goes on to
\* `await bucketsAPI.getBuckets(...)`
getOrgsResolved ==
    /\ inits["orgs"] > 0
    /\ inits' = [inits EXCEPT !["orgs"] = @ - 1, !["lookup"] = @ + 1]
    /\ lastFailure' = "none"
    /\ UNCHANGED <<senderVersion, exists, ready, initCalls, initResolved,
                   creates, reporters>>

\* the lookup that sets ready as soon as the names have arrived
lookupResolvedReadyAtOnce ==
    /\ inits["lookup"] > 0
    /\ ready' = TRUE
    /\ IF exists
       THEN /\ inits' = [inits EXCEPT !["lookup"] = @ - 1]
            /\ initResolved' = TRUE
            /\ UNCHANGED creates
       ELSE /\ inits' = [inits EXCEPT !["lookup"] = @ - 1, !["create"] = @ + 1]
            /\ creates' = creates + 1
            /\ UNCHANGED initResolved
    /\ lastFailure' = "none"
    /\ UNCHANGED <<senderVersion, exists, initCalls, reporters>>

\* the lookup followed by a create request whatever the names are
lookupResolvedAlwaysCreates ==
    /\ inits["lookup"] > 0
    /\ inits' = [inits EXCEPT !["lookup"] = @ - 1, !["create"] = @ + 1]
    /\ creates' = creates + 1
    /\ lastFailure' = "none"
    /\ UNCHANGED <<senderVersion, exists, ready, initCalls, initResolved,
                   reporters>>

\* getDatabaseNames() / getBuckets() has resolved: when the configured name
\* is among the result init() sets ready and resolves, otherwise it issues
\* createDatabase / postBuckets and awaits it
lookupResolved ==
    /\ inits["lookup"] > 0
    /\ IF exists
       THEN /\ inits' = [inits EXCEPT !["lookup"] = @ - 1]
            /\ ready' = TRUE
            /\ initResolved' = TRUE
            /\ UNCHANGED creates
       ELSE /\ inits' = [inits EXCEPT !["lookup"] = @ - 1, !["create"] = @ + 1]
            /\ creates' = creates + 1
            /\ UNCHANGED <<ready, initResolved>>
    /\ lastFailure' = "none"
    /\ UNCHANGED <<senderVersion, exists, initCalls, reporters>>

\* createDatabase / postBuckets has succeeded (CREATE DATABASE succeeds on an
\* existing database, postBuckets does not on an existing bucket): init()
\* sets ready and resolves
createResolved ==
    /\ inits["create"] > 0
    /\ senderVersion = "database" \/ ~exists
    /\ inits' = [inits EXCEPT !["create"] = @ - 1]
    /\ exists' = TRUE
    /\ ready' = TRUE
    /\ initResolved' = TRUE
    /\ lastFailure' = "none"
    /\ UNCHANGED <<senderVersion, initCalls, creates, reporters>>

\* init() that swallows the failure of a request and goes on to set ready
requestRejectedMasked(q) ==
    /\ inits[q] > 0
    /\ inits' = [inits EXCEPT ![q] = @ - 1]
    /\ ready' = TRUE
    /\ initResolved' = TRUE
    /\ lastFailure' = "none"
    /\ UNCHANGED <<senderVersion, exists, initCalls, creates, reporters>>

\* init() that marks the sender not ready when a request fails
requestRejectedResetsReady(q) ==
    /\ inits[q] > 0
    /\ inits' = [inits EXCEPT ![q] = @ - 1]
    /\ ready' = FALSE
    /\ lastFailure' = "init"
    /\ UNCHANGED <<senderVersion, exists, initCalls, initResolved, creates,
                   reporters>>

\* the request an init() call awaits fails (server unreachable, error
\* response, organisation not found): nothing catches, the promise init()
\* returned rejects and ready is not written
requestRejected(q) ==
    /\ inits[q] > 0
    /\ inits' = [inits EXCEPT ![q] = @ - 1]
    /\ lastFailure' = "init"
    /\ UNCHANGED <<senderVersion, exists, ready, initCalls, initResolved,
                   creates, reporters>>

\* send(points): db.writePoints resolves (ok) or rejects, and with it the
\* promise send() returned; no field of the sender is written
send(ok) ==
    /\ lastFailure' = IF ok THEN "none" ELSE "send"
    /\ UNCHANGED <<senderVersion, exists, ready, inits, initCalls,
                   initResolved, creates, reporters>>

\* a millisecond passes; the scheduler fires every due callback first
clockAdvance ==
    /\ alive
    /\ UNCHANGED <<aside, builtTags>>
    /\ clock < MaxClock
    /\ \A t \in 1..Len(timers) : clock < timers[t].next
    /\ clock' = clock + 1
    /\ noopStop' = FALSE
    /\ lastTick' = NoTick
    /\ UNCHANGED <<value, metricRegistries, metricStates, header, timer, timers,
                   starting, ticks, alive, thrown, reported>>

\* with no handle keeping the event loop alive and nothing pending the
\* process may exit (Timer.unref)
processExit ==
    /\ alive
    /\ UNCHANGED <<aside, builtTags>>
    /\ timers # << >>
    /\ \A t \in 1..Len(timers) : ~timers[t].refed
    /\ Inflight = 0
    /\ starting = << >>
    /\ alive' = FALSE
    /\ noopStop' = FALSE
    /\ lastTick' = NoTick
    /\ UNCHANGED <<clock, value, metricRegistries, metricStates, header, timer,
                   timers, starting, ticks, thrown, reported>>

Next ==
    \/ start
    \/ startArm
    \/ stop
    \/ \E t \in 1..MaxStarts : timerFire(t)
    \/ \E k \in TickKinds : reportDirResolved(k)
    \/ \E k \in TickKinds : reportFilenameResolved(k)
    \/ \E k \in Keys, v \in 0..MaxValue : setValue(k, v)
    \/ \E r \in 1..MaxRegistries, j \in 1..MaxMetrics : removeMetric(r, j)
    \/ \E registry \in LaterRegistries : addMetricRegistry(registry)
    \/ \E k \in Keys : getterFails(k)
    \/ \E map \in TagMaps : setTags(map)
    \/ \E k \in Keys : setNaN(k)
    \/ \E r \in 1..MaxRegistries, j \in 1..MaxMetrics : loggerReport(r, j)
    \/ clockAdvance
    \/ processExit
    \/ init
    \/ getOrgsResolved
    \/ lookupResolved
    \/ createResolved
    \/ \E q \in InitRequests : requestRejected(q)
    \/ \E ok \in BOOLEAN : send(ok)
    \/ \E l \in Loggers : setLog(l)
    \/ \E type \in {"counter", "gauge"}, registry \in LoggedRegistries :
          handleResults(type, registry)
    \/ \E w \in Workers, c \in Contexts, type \in MessageTypes :
          receive(w, message(w, c, type))
    \/ \E c \in Contexts : flush(c)
    \/ \E one \in Times, two \in Times : diffCalled(one, two)
    \/ \E r \in 1..MaxRegistries, type \in {"counter", "gauge"} :
          createContext(r, type)
    \/ \E j \in 1..MaxMetrics : reportMetric(j)

Spec == Init /\ [][Next]_vars

\* the dedup policy at work: the application starts the reporter once, lets
\* it run and keeps modifying the counter
PolicyNext ==
    \/ (timers = << >> /\ starting = << >> /\ start)
    \/ startArm
    \/ \E t \in 1..MaxStarts : timerFire(t)
    \/ \E k \in TickKinds : reportDirResolved(k)
    \/ \E k \in TickKinds : reportFilenameResolved(k)
    \/ \E k \in Keys, v \in 0..MaxValue : setValue(k, v)
    \/ clockAdvance

PolicySpec == Init /\ [][PolicyNext]_vars

\* the lifecycle at work: the application calls start() and stop() in any
\* order while the instruments keep their values
LifecycleNext ==
    \/ start
    \/ startArm
    \/ stop
    \/ \E t \in 1..MaxStarts : timerFire(t)
    \/ \E k \in TickKinds : reportDirResolved(k)
    \/ \E k \in TickKinds : reportFilenameResolved(k)
    \/ clockAdvance
    \/ processExit

LifecycleSpec == Init /\ [][LifecycleNext]_vars

\* ------------------------------------------------------------- properties
\* the evaluations of the report() that has just completed
Evals == { lastTick.evals[n] : n \in 1..Len(lastTick.evals) }

\* every (registry, instrument) the reporter has been given
Instruments ==
    UNION { { <<r, metricRegistries[r][j].key>> :
                j \in 1..Len(metricRegistries[r]) } :
            r \in 1..Len(metricRegistries) }

\* C1: a metric without an entry is reported and gets an entry; a metric with
\* an entry is reported iff its value differs from the entry's lastValue or
\* now - lastReport >= minReportingTimeout (so also at exactly the timeout).
HasChangedDecision ==
    \A e \in Evals :
        /\ ~e.had => e.changed /\ e.id \in DOMAIN metricStates
        /\ e.had => (e.changed <=>
                        \/ e.value # e.prev.lastValue
                        \/ e.now - e.prev.lastReport >= MinReportingTimeout)

\* C2: a metric whose value never changes (the constant gauge) is reported at
\* its first tick, never again before minReportingTimeout has elapsed since
\* its last report, and at the first tick at which that much has elapsed, so
\* that it is reported at least once every minReportingTimeout.
UnchangedReportedEveryTimeout ==
    \A e \in Evals :
        e.key \notin Counters =>
            /\ ~e.had => e.changed
            /\ e.had /\ e.changed =>
                   e.now - e.prev.lastReport >= MinReportingTimeout
            /\ e.had /\ ~e.changed =>
                   e.now - e.prev.lastReport < MinReportingTimeout

\* C3: right after an accepted report the metric's entry holds the value that
\* was just reported, whatever caused the acceptance.
EntryHoldsReportedValue ==
    \A e \in Evals : e.changed => e.post.lastValue = e.value

\* C4: a metric is not reported at a tick where its value equals the value of
\* its most recent accepted report and less than minReportingTimeout has
\* elapsed since that report.
UnchangedNotReported ==
    \A e \in Evals :
        ( /\ e.had
          /\ e.prevReported = e.value
          /\ e.now - e.prev.lastReport < MinReportingTimeout ) => ~e.changed

\* C5: an accepted report sets the entry's lastReport to the tick's now; a
\* rejected evaluation leaves the entry as it was.
AcceptedStampsRejectedUntouched ==
    \A e \in Evals :
        /\ e.changed => e.post.lastReport = e.now
        /\ ~e.changed => e.had /\ e.post = e.prev

\* C5 witness: one tick rejects a metric that has an entry and accepts, for
\* the timeout alone, another metric that has an entry
AcceptedAndRejectedSeen ==
    \E e, f \in Evals :
        /\ e.had /\ ~e.changed
        /\ f.had /\ f.changed /\ f.value = f.prev.lastValue
        /\ f.now > f.prev.lastReport

\* C6: start() calls without a stop() in between leave exactly one armed
\* timer (no handle has been unref'd, so no stop() has acted on a timer).
OneTimerArmed ==
    (\A t \in 1..Len(timers) : timers[t].refed) => Len(timers) <= 1

\* C7: once stop() has returned on a reporter that was started once, the
\* scheduler fires no callback (no report() call) until start() is called.
StopDisarms ==
    [][ ( /\ Len(timers) = 1 /\ ~timers[1].refed /\ starting = << >>
          /\ Len(timers') = 1 )
        => timers'[1].next = timers[1].next ]_vars

\* C8: stop() on a Stopped reporter (never started, or stopped before) throws
\* nothing and changes no field of the reporter nor any timer handle.
StopOnStoppedIsNoop ==
    [][ noopStop'
        => /\ ~thrown'
           /\ UNCHANGED <<timer, timers, header, metricStates,
                          metricRegistries, starting, clock, value, alive,
                          reported, tags>> ]_vars

\* C8 witness: stop() has just been called on a reporter that had been
\* started and stopped before
StopCalledOnStopped ==
    /\ noopStop
    /\ timer # 0 /\ ~timers[timer].refed
    /\ ~thrown

InflightAt(pc) == ticks[[pc |-> pc, sawStop |-> FALSE]]
                  + ticks[[pc |-> pc, sawStop |-> TRUE]]

\* C9: stop() takes no report() out of flight, and a report() that was in
\* flight when stop() was called evaluates every instrument of every
\* registry, each once.
InflightTickCompletes ==
    /\ [](lastTick.ran /\ lastTick.sawStop =>
            /\ { <<e.registry, e.key>> : e \in Evals } = Instruments
            /\ Len(lastTick.evals) = Cardinality(Instruments))
    /\ [][ lastTick'.ran \/ InflightAt("dir")' + InflightAt("filename")' >=
                           InflightAt("dir") + InflightAt("filename") ]_vars
    /\ [][ stop => /\ InflightAt("dir")' = InflightAt("dir")
                   /\ InflightAt("filename")' = InflightAt("filename") ]_vars

\* C9 witness: a report() that saw stop() while suspended has completed and
\* evaluated two registries
StoppedTickEvaluated ==
    /\ lastTick.ran /\ lastTick.sawStop
    /\ Stopped
    /\ \E e, f \in Evals : e.registry = 1 /\ f.registry = 2

\* C10: with one timer armed, at most one report() is in flight at any time.
TicksNeverOverlap ==
    Len(timers) <= 1 => Inflight <= 1

\* C11: all evaluations of one tick use one and the same now.
SingleCapturedNow ==
    \A e, f \in Evals : e.now = f.now

\* position of a variant in reportMetricRegistry's sequence of lists
VariantIndex(variant) ==
    CHOOSE v \in 1..Len(VariantOrder) : VariantOrder[v] = variant

\* C12: within one registry no instrument of a later variant is evaluated
\* before an instrument of an earlier variant.
VariantOrderKept ==
    \A i, j \in 1..Len(lastTick.evals) :
        ( /\ i < j
          /\ lastTick.evals[i].registry = lastTick.evals[j].registry )
        => VariantIndex(lastTick.evals[i].variant)
             <= VariantIndex(lastTick.evals[j].variant)

\* C12 witness: a registry whose gauge was registered before its counter
\* has been evaluated, the counter first
CounterBeforeGaugeSeen ==
    /\ lastTick.ran
    /\ Len(metricRegistries) = 1
    /\ metricRegistries[1][1].variant = "gauge"
    /\ Len(lastTick.evals) = 2
    /\ lastTick.evals[1].variant = "counter"
    /\ lastTick.evals[2].variant = "gauge"

\* C15: every instrument the dedup policy accepts gets at least one
\* writer.writeRow call in the same tick.
AcceptedIsWritten ==
    \A e \in Evals : e.changed => e.written >= 1

\* C18: minReportingTimeout counts minutes: a metric whose value equals the
\* entry's value is not reported again before minReportingTimeout x 60000
\* milliseconds have elapsed since its last report.
TimeoutInMinutes ==
    \A e \in Evals :
        (e.had /\ e.changed /\ e.value = e.prev.lastValue)
        => e.now - e.prev.lastReport >= MinReportingTimeout * (60 * 1000)

\* metrics come and go: the application starts the reporter once and removes
\* metrics from its registries while it runs
RegistryNext ==
    \/ (timers = << >> /\ starting = << >> /\ start)
    \/ startArm
    \/ \E t \in 1..MaxStarts : timerFire(t)
    \/ \E k \in TickKinds : reportDirResolved(k)
    \/ \E k \in TickKinds : reportFilenameResolved(k)
    \/ \E r \in 1..MaxRegistries, j \in 1..MaxMetrics : removeMetric(r, j)
    \/ clockAdvance

RegistrySpec == Init /\ [][RegistryNext]_vars

\* C19: once a tick has run, the reporter holds a MetricEntry only for
\* metrics that are registered in one of its registries.
NoEntryForRemovedMetric ==
    lastTick.ran =>
        \A id \in DOMAIN metricStates :
            \E r \in 1..Len(metricRegistries) :
                \E j \in 1..Len(metricRegistries[r]) :
                    metricRegistries[r][j].id = id

\* failing instruments: the application starts the reporter once and value
\* getters of its instruments begin to throw
FailureNext ==
    \/ (timers = << >> /\ starting = << >> /\ start)
    \/ startArm
    \/ \E t \in 1..MaxStarts : timerFire(t)
    \/ \E k \in TickKinds : reportDirResolved(k)
    \/ \E k \in TickKinds : reportFilenameResolved(k)
    \/ \E k \in Keys : getterFails(k)
    \/ clockAdvance

FailureSpec == Init /\ [][FailureNext]_vars

\* C16: a tick evaluates every instrument whose own value getter does not
\* fail, whatever happens to the other instruments.
FailureDoesNotAbortTick ==
    lastTick.ran =>
        \A i \in Instruments :
            i[2] \notin failing =>
                \E e \in Evals : e.registry = i[1] /\ e.key = i[2]

\* tags at work: a reporter constructed with any tags argument and export
\* mode, whose application calls setTags and start()
TagsNext ==
    \/ start
    \/ startArm
    \/ \E map \in TagMaps : setTags(map)

TagsSpec == TagsInit /\ [][TagsNext]_vars

\* the tag names in use
TagNames == {"env", "region"}

\* C13: the tag set buildTags computes for an instrument has exactly the keys
\* of the common tags and of the instrument's own tags, each once; a key of
\* the instrument carries the instrument's value, any other key the common
\* value.
BuildTagsIsUnion ==
    \A n \in 1..Len(builtTags) :
        LET b == builtTags[n] IN
        /\ \A i, j \in 1..Len(b.result) :
               b.result[i][1] = b.result[j][1] => i = j
        /\ \A k \in TagNames :
               /\ hasKey(b.result, k) <=> (hasKey(b.common, k) \/ hasKey(b.own, k))
               /\ hasKey(b.own, k) => getKey(b.result, k) = getKey(b.own, k)
               /\ (hasKey(b.common, k) /\ ~hasKey(b.own, k))
                      => getKey(b.result, k) = getKey(b.common, k)

\* C13 witness: buildTags has been applied to an instrument that shares a key
\* with the common tags under another value, and has a key of its own
TagCollisionResolved ==
    \E n \in 1..Len(builtTags) :
        \E k, l \in TagNames :
            /\ hasKey(builtTags[n].common, k) /\ hasKey(builtTags[n].own, k)
            /\ getKey(builtTags[n].common, k) # getKey(builtTags[n].own, k)
            /\ hasKey(builtTags[n].common, l) /\ ~hasKey(builtTags[n].own, l)

\* C14: until setTags is called, the common tags are the map given to the
\* constructor, and no call of the reporter has failed.
ConstructorTagsAreCommonTags ==
    ~setTagsCalled =>
        /\ tags.defined
        /\ tags.map = constructorTags
        /\ ~thrown

\* NaN at work: a counter turns NaN while the CSV reporter, started once,
\* ticks, and while a LoggerReporter formats the same instruments
NaNNext ==
    \/ (timers = << >> /\ starting = << >> /\ start)
    \/ startArm
    \/ \E t \in 1..MaxStarts : timerFire(t)
    \/ \E k \in TickKinds : reportDirResolved(k)
    \/ \E k \in TickKinds : reportFilenameResolved(k)
    \/ \E k \in Keys : setNaN(k)
    \/ \E r \in 1..MaxRegistries, j \in 1..MaxMetrics : loggerReport(r, j)
    \/ clockAdvance

NaNSpec == Init /\ [][NaNNext]_vars

\* C17: LoggerReporter.report* returns null exactly for an instrument whose
\* value is NaN, and otherwise a line carrying the instrument's name and
\* value; a CSV tick over a NaN instrument writes no row for it, does not
\* fail and evaluates every instrument.
NaNIsSkipped ==
    /\ logCall.called =>
          /\ logCall.result.isNull <=> isNaN(logCall.value)
          /\ ~logCall.result.isNull =>
                /\ logCall.result.message[3] = logCall.key
                /\ logCall.result.message[4] = logCall.value
                /\ logCall.result.metadata.measurement = logCall.key
    /\ lastTick.ran =>
          /\ \A e \in Evals : isNaN(e.value) => e.written = 0
          /\ ~lastTick.aborted
          /\ \A i \in Instruments :
                \E e \in Evals : e.registry = i[1] /\ e.key = i[2]

\* C17 witness: report* has returned null for a NaN counter, and a tick has
\* just evaluated the NaN counter and the gauge after it
NaNCounterSkipped ==
    /\ logCall.called /\ isNaN(logCall.value) /\ logCall.result.isNull
    /\ lastTick.ran
    /\ \E e, f \in Evals :
          /\ isNaN(e.value) /\ e.written = 0
          /\ f.variant = "gauge"

\* the sender at work: init() is called, also while earlier calls are in
\* flight, on either version, whether the database / bucket exists or not
SenderInit ==
    /\ Constructed(<< >>, "ALL_IN_ONE_COLUMN")
    /\ metricRegistries = << >>
    /\ \E version \in {"database", "bucket"}, there \in BOOLEAN :
          SenderConstructed(version, there)

SenderNext ==
    \/ init
    \/ getOrgsResolved
    \/ lookupResolved
    \/ createResolved
    \/ \E q \in InitRequests : requestRejected(q)
    \/ \E ok \in BOOLEAN : send(ok)

SenderSpec == SenderInit /\ [][SenderNext]_vars

\* C20: isReady() resolves to true exactly when an init() call has resolved,
\* and then the existence check has been made and the database / bucket
\* exists: it was found or its creation has completed.
ReadyAfterInit ==
    /\ isReady <=> initResolved
    /\ isReady => exists

\* C20 witness: the sender is ready after an init() call that had to create
\* the database has resolved, while another call that found it missing is
\* still awaiting its own create request
ReadyAfterCreation ==
    /\ isReady /\ initResolved /\ exists
    /\ inits["create"] > 0

\* C21: when an init() call has resolved the database / bucket exists, and a
\* create request is issued exactly by a lookup whose answer does not
\* contain the configured name.
InitEnsuresExistence ==
    /\ [](initResolved => exists)
    /\ [][ /\ lookupResolved => (creates' = creates + 1 <=> ~exists)
           /\ creates' # creates => lookupResolved ]_vars

\* C21 witness: one init() call found the name missing and has created it,
\* a later call found it and has issued no create request
CreatedOnceThenFound ==
    /\ initResolved /\ exists
    /\ creates = 1
    /\ initCalls >= 2
    /\ inits = NoInits
    /\ lastFailure = "none"

\* C22: when a request of init() has just failed the promise of init() has
\* rejected, and unless another init() call has resolved isReady() is false.
InitFailureSurfaced ==
    /\ [][ (\E q \in InitRequests : requestRejected(q))
             => lastFailure' = "init" /\ ready' = ready ]_vars
    /\ []((lastFailure = "init" /\ ~initResolved) => ~isReady)

\* C22 witness: the create request of the only init() call has just failed
\* and the sender is not ready
CreateFailedNotReady ==
    /\ lastFailure = "init"
    /\ creates = 1 /\ initCalls = 1 /\ inits = NoInits
    /\ ~isReady

\* C29: ready never goes from true back to false.
ReadyIsMonotonic ==
    [][ready => ready']_vars

\* C29 witness: an init() call, or a send(), has just failed on a sender that
\* is ready
FailureWhileReady ==
    /\ isReady
    /\ lastFailure # "none"

\* C30: at most one create request is ever issued.
AtMostOneCreate ==
    creates <= 1

\* registries come later: the application starts the reporter once and adds
\* registries while it runs
GrowthNext ==
    \/ (timers = << >> /\ starting = << >> /\ start)
    \/ startArm
    \/ \E t \in 1..MaxStarts : timerFire(t)
    \/ \E k \in TickKinds : reportDirResolved(k)
    \/ \E k \in TickKinds : reportFilenameResolved(k)
    \/ \E registry \in LaterRegistries : addMetricRegistry(registry)
    \/ clockAdvance

GrowthSpec == Init /\ [][GrowthNext]_vars

\* the LoggerReporter at work: the application changes the logger and the
\* counter between the handleResults calls of the report loop
LoggerNext ==
    \/ \E l \in Loggers : setLog(l)
    \/ \E type \in {"counter", "gauge"}, registry \in LoggedRegistries :
          handleResults(type, registry)
    \/ \E k \in Keys, v \in 0..MaxValue : setValue(k, v)
    \/ clockAdvance

LoggerSpec == Init /\ [][LoggerNext]_vars

\* the coordinator at work: the workers' messages arrive in any order, any
\* number of times, around the coordinator's flushes
InterprocessNext ==
    \/ \E w \in Workers, c \in Contexts, type \in MessageTypes :
          receive(w, message(w, c, type))
    \/ \E c \in Contexts : flush(c)

InterprocessSpec == Init /\ [][InterprocessNext]_vars

\* the LoggerReporter formatting: contexts are created and the metrics of
\* their registry formatted, while registries are added and the counter
\* changes, also to NaN
MetadataNext ==
    \/ \E r \in 1..MaxRegistries, type \in {"counter", "gauge"} :
          createContext(r, type)
    \/ \E j \in 1..MaxMetrics : reportMetric(j)
    \/ \E registry \in LaterRegistries : addMetricRegistry(registry)
    \/ \E k \in Keys, v \in 0..MaxValue : setValue(k, v)
    \/ \E k \in Keys : setNaN(k)
    \/ clockAdvance

MetadataSpec == Init /\ [][MetadataNext]_vars

\* diff at work: callers hand it any two Time values
ClockNext == \E one \in Times, two \in Times : diffCalled(one, two)

ClockSpec == Init /\ [][ClockNext]_vars

\* C27: a tick that reports hands writer.init the header start() has built,
\* and no tick changes the header.
HeaderBuiltOnceAtStart ==
    /\ [](lastTick.ran /\ lastTick.evals # << >>
            => /\ lastTick.header.set
               /\ lastTick.header = header)
    /\ [][ (\E k \in TickKinds : reportFilenameResolved(k))
             => header' = header ]_vars

\* C28: a metric without an id is accepted at every evaluation and gets no
\* MetricEntry; a metric with an id is accepted exactly when it has no entry
\* yet, its value differs from the entry's, or the entry's lastReport is
\* more than minReportingTimeout back.
OnlyIdsAreDeduplicated ==
    /\ 0 \notin DOMAIN metricStates
    /\ \A e \in Evals :
          /\ e.id = 0 => e.changed /\ ~e.had
          /\ e.id # 0 =>
                (e.changed <=>
                    \/ ~e.had
                    \/ notStrictEqual(e.prev.lastValue, e.value)
                    \/ e.prev.lastReport + MinReportingTimeout < e.now)

\* C28 witness: one tick accepts the gauge without id and rejects the gauge
\* with an id next to it
AnonymousAcceptedNextToRejected ==
    \E e, f \in Evals :
        /\ e.id = 0 /\ e.changed
        /\ f.id # 0 /\ ~f.changed /\ f.registry = e.registry

\* C23: handleResults makes one info call per result, in the order of the
\* results, with the result's message and metadata, on the logger the options
\* hold (the constructor's, or the one of the latest setLog), and returns a
\* resolved promise; with no result it makes no call.
EachResultLoggedOnceInOrder ==
    handled.called =>
        /\ Len(logged) = Len(handled.results)
        /\ \A i \in 1..Len(logged) :
              logged[i] = info(getLog, handled.results[i].result.message,
                               handled.results[i].result.metadata)
        /\ handled.returned = "resolved"

\* C23 witness: after setLog, handleResults has logged two different results
\* on the new logger
TwoResultsOnNewLogger ==
    /\ handled.called
    /\ Len(handled.results) = 2
    /\ handled.results[1] # handled.results[2]
    /\ Len(logged) = 2
    /\ log = "custom"

\* C24: a worker's message is merged into the coordinator's report context at
\* most once, tracked by its identity: each result of a delivered message is
\* in the merged and the replayed lists of its context exactly once, also
\* after the message was delivered again, and nothing else is in them, so
\* that messages with disjoint lists merge into their union without
\* duplicates.
MergedExactlyOnce ==
    \A w \in Workers, c \in Contexts :
        LET m == message(w, c, "inspector-metrics:report")
        IN \A t \in MetricTypes :
             \A i \in 1..Len(m.metrics[t]) :
                occurrences(overall[c][t] \o sunk[c][t], m.metrics[t][i])
                  = IF identity(w, m) \in mergedIds THEN 1 ELSE 0

\* C24 witness: both workers' messages for a context are merged, one of them
\* was delivered twice, and the context holds the union of their lists
ReplayedMessageMergedOnce ==
    \E c \in Contexts :
        /\ {<<w, c>> : w \in Workers} \subseteq mergedIds
        /\ <<"worker-1", c>> \in replayed
        /\ Len(overall[c].gauges) = 2
        /\ Len(overall[c].counters) = 1
        /\ lastReceipt = "dropped"

\* C25: diff(one, two) is the time from one to two in nanoseconds,
\* (two.milliseconds - one.milliseconds) x 1000000 + (two.nanoseconds -
\* one.nanoseconds), and diff(t, t) is 0 for every Time t.
DiffIsElapsedNanoseconds ==
    (diffCall.called /\ diffCall.one.defined /\ diffCall.two.defined) =>
        /\ ~diffCall.result.threw
        /\ diffCall.result.value
             = (diffCall.two.milliseconds - diffCall.one.milliseconds)
                 * (1000 * 1000)
               + (diffCall.two.nanoseconds - diffCall.one.nanoseconds)
        /\ diffCall.one = diffCall.two => diffCall.result.value = 0

\* C25 witness: diff from 0 ms 0 ns to 1 ms 2 ns was 1000002
DiffOverMillisAndNanos ==
    /\ diffCall.called
    /\ diffCall.one = [defined |-> TRUE, milliseconds |-> 0, nanoseconds |-> 0]
    /\ diffCall.two = [defined |-> TRUE, milliseconds |-> 1, nanoseconds |-> 2]
    /\ diffCall.result.value = 1000 * 1000 + 2

\* C26: diff called with null for both Time arguments returns 0 and does not
\* throw.
DiffOfNullIsZero ==
    (diffCall.called /\ diffCall.one = Null /\ diffCall.two = Null) =>
        /\ ~diffCall.result.threw
        /\ diffCall.result.value = 0

\* C26 witness: diff(null, null) has returned
DiffCalledWithNulls ==
    /\ diffCall.called
    /\ diffCall.one = Null
    /\ diffCall.two = Null
    /\ ~diffCall.result.threw

\* C31: the metadata of every LogLine returned in a reporting context carries
\* the measurement name, the group and the tags of its own metric, also after
\* later metrics were formatted with the same context, and the reporter's own
\* logMetadata stays { reportInterval, tags, unit } as constructed.
MetadataIsIsolated ==
    /\ heap[OwnMetadata] = logMetadata
    /\ \A i \in 1..Len(logLines) :
          LET metadata == heap[logLines[i].metadata]
          IN /\ metadata.measurement = logLines[i].metric.key
             /\ metadata.group = logLines[i].metric.group
             /\ metadata.tags
                  = loggerBuildTags(ctxOf.registry, logLines[i].metric)
             /\ metadata.measurement_type = ctxOf.type
             /\ metadata.timestamp = ctxOf.date

\* C31 witness: two different metrics were formatted with one context and
\* the first line still names the first metric
TwoLinesOfOneContext ==
    /\ Len(logLines) >= 2
    /\ logLines[1].metric # logLines[2].metric
    /\ logLines[1].metadata # logLines[2].metadata
    /\ heap[logLines[1].metadata].measurement = logLines[1].metric.key
    /\ heap[ctxOf.logMetadata].measurement
         = logLines[Len(logLines)].metric.key
====
